---- MODULE Spec2Model ----
(***************************************************************************)
(* FHEConfidentialVoting (contracts/FHEVM.sol): a registry of proposals    *)
(* whose options accumulate encrypted votes, tallied once after the        *)
(* deadline.  Every external call is one transaction: it either commits    *)
(* all its writes or reverts and leaves the storage as it was.             *)
(***************************************************************************)
EXTENDS Integers, Sequences, FiniteSets, TLC

\* ------------------------------------------------------------------ bounds
MaxProposals == 2
MaxClock == 2
MaxEvents == 4
MaxElectionClock == 3

\* ------------------------------------------------------- inputs of the calls
Addresses == {"A", "B", "C"}
Callers == {"A", "B"}
ZeroAddress == "0x0"
Titles == {"Q"}
OptionNameLists == {<< >>, <<"Yes", "No">>}
ProposalIds == 0..MaxProposals

\* ------------------------------------------------------------------ uint32
\* A uint32 is kept as two 16-bit limbs, so that the arithmetic is the
\* arithmetic modulo 2^32 of the euint32 plaintexts.
Limb == 2^16

U32(n) == [hi |-> n \div Limb, lo |-> n % Limb]

MaxUint32 == [hi |-> Limb - 1, lo |-> Limb - 1]

U32Add(a, b) ==
    LET s == a.lo + b.lo
    IN  [hi |-> (a.hi + b.hi + (s \div Limb)) % Limb, lo |-> s % Limb]

\* ----------------------------------------------------------------- uint256
\* The model keeps the two ends of the uint256 range:
\*   [top |-> FALSE, n |-> k]  is the value k,
\*   [top |-> TRUE,  n |-> k]  is the value type(uint256).max - k.
Small(k) == [top |-> FALSE, n |-> k]
NearMax(k) == [top |-> TRUE, n |-> k]

\* a + b of Solidity 0.8 is checked: it reverts (Panic 0x11) when the sum
\* exceeds type(uint256).max.  a is a clock reading, always at the low end.
Overflows_Never(a, b) == FALSE

Overflows(a, b) == b.top /\ a > b.n

CheckedAdd_DurationOnly(a, b) ==
    IF ~b.top THEN Small(b.n) ELSE NearMax(b.n)

CheckedAdd(a, b) ==
    IF ~b.top THEN Small(a + b.n) ELSE NearMax(b.n - a)

\* a > b for a clock reading a and a uint256 b
Greater(a, b) == ~b.top /\ a > b.n

Durations == {Small(0), Small(1), NearMax(0)}

\* ------------------------------------------------ the FHEVM precompile (0x5d)
FHE_trivialEncrypt(value) == [ct |-> value]

FHE_add(a, b) == [ct |-> U32Add(a.ct, b.ct)]

FHE_decrypt(ciphertext) == ciphertext.ct

\* The vote vectors the callers submit, by their plaintexts.
PlainVectors ==
    {<< >>, <<U32(1), U32(0)>>, <<U32(0), U32(1)>>, <<U32(0), U32(0)>>,
     <<MaxUint32, U32(2)>>}

EncryptVector(pv) == [i \in 1..Len(pv) |-> FHE_trivialEncrypt(pv[i])]

EncryptedVectors == {EncryptVector(pv) : pv \in PlainVectors}

\* The vectors of the runs with several proposals.
SomeVectors ==
    {EncryptVector(pv) :
        pv \in {<< >>, <<U32(1), U32(0)>>, <<MaxUint32, U32(2)>>}}

\* ------------------------------------------------------------------- state
VARIABLES
    nextProposalId,   \* uint256 private _nextProposalId
    proposals,        \* mapping(uint256 => Proposal)
    hasVoted,         \* mapping(address => mapping(uint256 => bool))
    blockTimestamp,   \* block.timestamp
    events,           \* the log of emitted events, oldest first
    ballots,          \* history: the accepted castVote calls, oldest first
    decryptions,      \* history: the FHE.decrypt calls, oldest first
    lastCall          \* the last call: its arguments and its outcome

vars == <<nextProposalId, proposals, hasVoted, blockTimestamp, events,
          ballots, decryptions, lastCall>>

storage ==
    <<nextProposalId, proposals, hasVoted, events, ballots, decryptions>>

\* The value of a storage slot never written: mapping(uint256 => Proposal).
EmptyProposal ==
    [id |-> 0, proposer |-> ZeroAddress, title |-> "",
     votingDeadline |-> Small(0), resultsDecrypted |-> FALSE,
     options |-> << >>, decryptedResults |-> << >>]

NoCall ==
    [op |-> "none", caller |-> ZeroAddress, id |-> 0, votes |-> << >>,
     result |-> "ok", ret |-> << >>]

Init_FromZero ==
    /\ nextProposalId = 0
    /\ proposals = [i \in ProposalIds |-> EmptyProposal]
    /\ hasVoted = [a \in Addresses |-> [i \in ProposalIds |-> FALSE]]
    /\ blockTimestamp = 1
    /\ events = << >>
    /\ ballots = << >>
    /\ decryptions = << >>
    /\ lastCall = NoCall

Init ==
    /\ nextProposalId = 1
    /\ proposals = [i \in ProposalIds |-> EmptyProposal]
    /\ hasVoted = [a \in Addresses |-> [i \in ProposalIds |-> FALSE]]
    /\ blockTimestamp = 1
    /\ events = << >>
    /\ ballots = << >>
    /\ decryptions = << >>
    /\ lastCall = NoCall

Revert_MarksVoter(call, error) ==
    /\ lastCall' = [call EXCEPT !.result = error]
    /\ hasVoted' = IF call.op = "castVote" /\ error = "InvalidOptionsCount"
                   THEN [hasVoted EXCEPT ![call.caller][call.id] = TRUE]
                   ELSE hasVoted
    /\ UNCHANGED <<nextProposalId, proposals, events, ballots, decryptions,
                   blockTimestamp>>

Revert_KeepsFirstCounter(call, error) ==
    /\ lastCall' = [call EXCEPT !.result = error]
    /\ proposals' = IF call.op = "castVote" /\ error = "CapabilityFailure"
                    THEN [proposals EXCEPT
                            ![call.id].options[1].encryptedVoteCount =
                                [ct |-> call.votes[1].ct]]
                    ELSE proposals
    /\ UNCHANGED <<nextProposalId, hasVoted, events, ballots, decryptions,
                   blockTimestamp>>

Revert_KeepsEvent(call, error) ==
    /\ lastCall' = [call EXCEPT !.result = error]
    /\ events' = IF call.op = "castVote"
                 THEN Append(events,
                          [type |-> "VoteCast", proposalId |-> call.id,
                           voter |-> call.caller])
                 ELSE events
    /\ UNCHANGED <<nextProposalId, proposals, hasVoted, ballots, decryptions,
                   blockTimestamp>>

\* A call that reverts: no storage write survives.
Revert(call, error) ==
    /\ lastCall' = [call EXCEPT !.result = error]
    /\ UNCHANGED <<storage, blockTimestamp>>

\* ----------------------------------------------------------- createProposal
NewOptions_StartAtOne(_optionNames) ==
    [i \in 1..Len(_optionNames) |->
        [name |-> _optionNames[i], encryptedVoteCount |-> [ct |-> U32(1)]]]

\* The loop that pushes one option per name, its counter an encryption of 0.
NewOptions(_optionNames) ==
    [i \in 1..Len(_optionNames) |->
        [name |-> _optionNames[i],
         encryptedVoteCount |-> FHE_trivialEncrypt(U32(0))]]

\* A call of the precompile at 0x5d may revert, and the transaction with it.
createProposal(sender, _title, _optionNames, _votingDurationSeconds) ==
    LET proposalId == nextProposalId
        deadline == CheckedAdd(blockTimestamp, _votingDurationSeconds)
        call == [op |-> "createProposal", caller |-> sender, id |-> 0,
                 votes |-> << >>, result |-> "ok", ret |-> << >>]
    IN  IF Overflows(blockTimestamp, _votingDurationSeconds)
        THEN Revert(call, "Panic")
        ELSE \/ /\ Len(_optionNames) > 0
                /\ Revert(call, "CapabilityFailure")
             \/ /\ nextProposalId' = nextProposalId + 1
                /\ proposals' = [proposals EXCEPT ![proposalId] =
                       [@ EXCEPT
                          !.id = proposalId,
                          !.proposer = sender,
                          !.title = _title,
                          !.votingDeadline = deadline,
                          !.options = @ \o NewOptions(_optionNames)]]
                /\ events' = Append(events,
                       [type |-> "ProposalCreated", proposalId |-> proposalId,
                        proposer |-> sender, title |-> _title,
                        votingDeadline |-> deadline])
                /\ lastCall' = [call EXCEPT !.ret = <<proposalId>>]
                /\ UNCHANGED <<hasVoted, ballots, decryptions, blockTimestamp>>

\* ------------------------------------------------------- the require checks
ProposalNotFound(_proposalId) == proposals[_proposalId].id = 0

VotingIsClosed_Late(_proposalId) ==
    LET d == proposals[_proposalId].votingDeadline
    IN  ~d.top /\ blockTimestamp > d.n + 1

VotingIsClosed_AtDeadline(_proposalId) ==
    LET d == proposals[_proposalId].votingDeadline
    IN  ~d.top /\ blockTimestamp >= d.n

VotingIsClosed_AfterTally(_proposalId) ==
    proposals[_proposalId].resultsDecrypted

VotingIsClosed(_proposalId) ==
    Greater(blockTimestamp, proposals[_proposalId].votingDeadline)

AlreadyVoted_ByProposer(sender, _proposalId) ==
    /\ proposals[_proposalId].proposer \in Addresses
    /\ hasVoted[proposals[_proposalId].proposer][_proposalId]

AlreadyVoted_AnyVoter(sender, _proposalId) ==
    \E a \in Addresses : hasVoted[a][_proposalId]

AlreadyVoted_AnyProposal(sender, _proposalId) ==
    \E q \in ProposalIds : hasVoted[sender][q]

AlreadyVoted(sender, _proposalId) == hasVoted[sender][_proposalId]

InvalidOptionsCount_OrNotOneHot(_proposalId, _encryptedVotes) ==
    \/ Len(_encryptedVotes) # Len(proposals[_proposalId].options)
    \/ Cardinality({i \in 1..Len(_encryptedVotes) :
                       _encryptedVotes[i].ct = U32(1)}) # 1
    \/ \E i \in 1..Len(_encryptedVotes) :
           _encryptedVotes[i].ct \notin {U32(0), U32(1)}

InvalidOptionsCount(_proposalId, _encryptedVotes) ==
    Len(_encryptedVotes) # Len(proposals[_proposalId].options)

TallyNotAllowed_Strict(_proposalId) ==
    LET d == proposals[_proposalId].votingDeadline
    IN  d.top \/ blockTimestamp < d.n

TallyNotAllowed_Gap(_proposalId) ==
    LET d == proposals[_proposalId].votingDeadline
    IN  d.top \/ blockTimestamp <= d.n + 1

TallyNotAllowed_WithoutVotes(_proposalId) ==
    \/ ~Greater(blockTimestamp, proposals[_proposalId].votingDeadline)
    \/ \A a \in Addresses : ~hasVoted[a][_proposalId]

TallyNotAllowed(_proposalId) ==
    ~Greater(blockTimestamp, proposals[_proposalId].votingDeadline)

ResultsAlreadyDecrypted_ByLength(_proposalId) ==
    Len(proposals[_proposalId].decryptedResults) > 0

ResultsAlreadyDecrypted(_proposalId) == proposals[_proposalId].resultsDecrypted

\* ------------------------------------------------------------------ castVote
\* The error castVote reverts with, "none" when every check passes.
castVoteError_VotedFirst(sender, _proposalId, _encryptedVotes) ==
    IF ProposalNotFound(_proposalId) THEN "ProposalNotFound"
    ELSE IF AlreadyVoted(sender, _proposalId) THEN "AlreadyVoted"
    ELSE IF VotingIsClosed(_proposalId) THEN "VotingIsClosed"
    ELSE IF InvalidOptionsCount(_proposalId, _encryptedVotes)
         THEN "InvalidOptionsCount"
    ELSE "none"

castVoteError_ClockFirst(sender, _proposalId, _encryptedVotes) ==
    IF VotingIsClosed(_proposalId) THEN "VotingIsClosed"
    ELSE IF ProposalNotFound(_proposalId) THEN "ProposalNotFound"
    ELSE IF AlreadyVoted(sender, _proposalId) THEN "AlreadyVoted"
    ELSE IF InvalidOptionsCount(_proposalId, _encryptedVotes)
         THEN "InvalidOptionsCount"
    ELSE "none"

castVoteError_LengthFirst(sender, _proposalId, _encryptedVotes) ==
    IF ProposalNotFound(_proposalId) THEN "ProposalNotFound"
    ELSE IF VotingIsClosed(_proposalId) THEN "VotingIsClosed"
    ELSE IF InvalidOptionsCount(_proposalId, _encryptedVotes)
         THEN "InvalidOptionsCount"
    ELSE IF AlreadyVoted(sender, _proposalId) THEN "AlreadyVoted"
    ELSE "none"

castVoteError(sender, _proposalId, _encryptedVotes) ==
    IF ProposalNotFound(_proposalId) THEN "ProposalNotFound"
    ELSE IF VotingIsClosed(_proposalId) THEN "VotingIsClosed"
    ELSE IF AlreadyVoted(sender, _proposalId) THEN "AlreadyVoted"
    ELSE IF InvalidOptionsCount(_proposalId, _encryptedVotes)
         THEN "InvalidOptionsCount"
    ELSE "none"

\* The homomorphic accumulation loop of castVote.
AddVotes_SkipLast(options, _encryptedVotes) ==
    [i \in 1..Len(options) |->
        IF i < Len(_encryptedVotes)
        THEN [options[i] EXCEPT !.encryptedVoteCount =
                  FHE_add(@, _encryptedVotes[i])]
        ELSE options[i]]

AddVotes_Overwrite(options, _encryptedVotes) ==
    [i \in 1..Len(options) |->
        IF i <= Len(_encryptedVotes)
        THEN [options[i] EXCEPT !.encryptedVoteCount = _encryptedVotes[i]]
        ELSE options[i]]

AddVotes(options, _encryptedVotes) ==
    [i \in 1..Len(options) |->
        IF i <= Len(_encryptedVotes)
        THEN [options[i] EXCEPT !.encryptedVoteCount =
                  FHE_add(@, _encryptedVotes[i])]
        ELSE options[i]]

castVote_NoRecord(sender, _proposalId, _encryptedVotes) ==
    LET error == castVoteError(sender, _proposalId, _encryptedVotes)
        call == [op |-> "castVote", caller |-> sender, id |-> _proposalId,
                 votes |-> _encryptedVotes, result |-> "ok", ret |-> << >>]
    IN  IF error # "none" THEN Revert(call, error)
        ELSE \/ /\ Len(_encryptedVotes) > 0
                /\ Revert(call, "CapabilityFailure")
             \/ /\ proposals' = [proposals EXCEPT ![_proposalId].options =
                       AddVotes(@, _encryptedVotes)]
                /\ events' = Append(events,
                       [type |-> "VoteCast", proposalId |-> _proposalId,
                        voter |-> sender])
                /\ ballots' = Append(ballots,
                       [voter |-> sender, proposalId |-> _proposalId,
                        votes |-> _encryptedVotes])
                /\ lastCall' = call
                /\ UNCHANGED <<nextProposalId, hasVoted, decryptions,
                               blockTimestamp>>

castVote(sender, _proposalId, _encryptedVotes) ==
    LET error == castVoteError(sender, _proposalId, _encryptedVotes)
        call == [op |-> "castVote", caller |-> sender, id |-> _proposalId,
                 votes |-> _encryptedVotes, result |-> "ok", ret |-> << >>]
    IN  IF error # "none" THEN Revert(call, error)
        ELSE \/ /\ Len(_encryptedVotes) > 0
                /\ Revert(call, "CapabilityFailure")
             \/ /\ proposals' = [proposals EXCEPT ![_proposalId].options =
                       AddVotes(@, _encryptedVotes)]
                /\ hasVoted' = [hasVoted EXCEPT ![sender][_proposalId] = TRUE]
                /\ events' = Append(events,
                       [type |-> "VoteCast", proposalId |-> _proposalId,
                        voter |-> sender])
                /\ ballots' = Append(ballots,
                       [voter |-> sender, proposalId |-> _proposalId,
                        votes |-> _encryptedVotes])
                /\ lastCall' = call
                /\ UNCHANGED <<nextProposalId, decryptions, blockTimestamp>>

\* ---------------------------------------------------------------- tallyVotes
\* The error tallyVotes reverts with, "none" when every check passes.
tallyVotesError_Repeatable(_proposalId) ==
    IF ProposalNotFound(_proposalId) THEN "ProposalNotFound"
    ELSE IF TallyNotAllowed(_proposalId) THEN "TallyNotAllowed"
    ELSE "none"

tallyVotesError(_proposalId) ==
    IF ProposalNotFound(_proposalId) THEN "ProposalNotFound"
    ELSE IF TallyNotAllowed(_proposalId) THEN "TallyNotAllowed"
    ELSE IF ResultsAlreadyDecrypted(_proposalId) THEN "ResultsAlreadyDecrypted"
    ELSE "none"

\* The decryption loop of tallyVotes.
DecryptCounts(options) ==
    [i \in 1..Len(options) |-> FHE_decrypt(options[i].encryptedVoteCount)]

\* The FHE.decrypt calls of that loop, in order.
DecryptCalls(_proposalId, options) ==
    [i \in 1..Len(options) |->
        [proposalId |-> _proposalId, option |-> i,
         ciphertext |-> options[i].encryptedVoteCount]]

tallyVotes(sender, _proposalId) ==
    LET p == proposals[_proposalId]
        error == tallyVotesError(_proposalId)
        results == DecryptCounts(p.options)
        call == [op |-> "tallyVotes", caller |-> sender, id |-> _proposalId,
                 votes |-> << >>, result |-> "ok", ret |-> << >>]
    IN  IF error # "none" THEN Revert(call, error)
        ELSE \/ /\ Len(p.options) > 0
                /\ Revert(call, "CapabilityFailure")
             \/ /\ proposals' = [proposals EXCEPT ![_proposalId] =
                       [@ EXCEPT !.decryptedResults = results,
                                 !.resultsDecrypted = TRUE]]
                /\ events' = Append(events,
                       [type |-> "TallyCompleted", proposalId |-> _proposalId,
                        results |-> results])
                /\ decryptions' =
                       decryptions \o DecryptCalls(_proposalId, p.options)
                /\ lastCall' = call
                /\ UNCHANGED <<nextProposalId, hasVoted, ballots,
                               blockTimestamp>>

\* --------------------------------------------------------------------- views
getProposal(_proposalId) ==
    LET call == [op |-> "getProposal", caller |-> ZeroAddress,
                 id |-> _proposalId, votes |-> << >>, result |-> "ok",
                 ret |-> << >>]
    IN  IF ProposalNotFound(_proposalId)
        THEN Revert(call, "ProposalNotFound")
        ELSE /\ lastCall' = [call EXCEPT !.ret = <<proposals[_proposalId]>>]
             /\ UNCHANGED <<storage, blockTimestamp>>

getDecryptedResults_ByLength(_proposalId) ==
    LET call == [op |-> "getDecryptedResults", caller |-> ZeroAddress,
                 id |-> _proposalId, votes |-> << >>, result |-> "ok",
                 ret |-> << >>]
    IN  IF ProposalNotFound(_proposalId)
        THEN Revert(call, "ProposalNotFound")
        ELSE IF Len(proposals[_proposalId].decryptedResults) = 0
             THEN Revert(call, "TallyNotAllowed")
        ELSE /\ lastCall' = [call EXCEPT !.ret =
                    proposals[_proposalId].decryptedResults]
             /\ UNCHANGED <<storage, blockTimestamp>>

getDecryptedResults_DecryptsOnRead(_proposalId) ==
    LET p == proposals[_proposalId]
        call == [op |-> "getDecryptedResults", caller |-> ZeroAddress,
                 id |-> _proposalId, votes |-> << >>, result |-> "ok",
                 ret |-> << >>]
    IN  IF ProposalNotFound(_proposalId)
        THEN Revert(call, "ProposalNotFound")
        ELSE IF ~p.resultsDecrypted
             THEN Revert(call, "TallyNotAllowed")
        ELSE /\ lastCall' = [call EXCEPT !.ret = DecryptCounts(p.options)]
             /\ decryptions' =
                    decryptions \o DecryptCalls(_proposalId, p.options)
             /\ UNCHANGED <<nextProposalId, proposals, hasVoted, events,
                            ballots, blockTimestamp>>

getDecryptedResults(_proposalId) ==
    LET call == [op |-> "getDecryptedResults", caller |-> ZeroAddress,
                 id |-> _proposalId, votes |-> << >>, result |-> "ok",
                 ret |-> << >>]
    IN  IF ProposalNotFound(_proposalId)
        THEN Revert(call, "ProposalNotFound")
        ELSE IF ~proposals[_proposalId].resultsDecrypted
             THEN Revert(call, "TallyNotAllowed")
        ELSE /\ lastCall' = [call EXCEPT !.ret =
                    proposals[_proposalId].decryptedResults]
             /\ UNCHANGED <<storage, blockTimestamp>>

\* --------------------------------------------------------------------- clock
\* block.timestamp of the next block: it never decreases.
Tick ==
    /\ blockTimestamp < MaxClock
    /\ blockTimestamp' = blockTimestamp + 1
    /\ UNCHANGED <<storage, lastCall>>

\* ------------------------------------------------------------ specification
\* Transactions run one at a time: a call starts when the outcome of the
\* one before it has been taken.
Idle == lastCall = NoCall

Return ==
    /\ ~Idle
    /\ lastCall' = NoCall
    /\ UNCHANGED <<storage, blockTimestamp>>

\* The calls of a run: any caller, any arguments, until the log holds
\* MaxEvents events.
CreateStep ==
    /\ Idle
    /\ nextProposalId <= MaxProposals
    /\ Len(events) < MaxEvents
    /\ \E sender \in Callers, t \in Titles, names \in OptionNameLists,
          d \in Durations :
           createProposal(sender, t, names, d)

VoteStep ==
    /\ Idle
    /\ Len(events) < MaxEvents
    /\ \E sender \in Callers, id \in ProposalIds, ev \in SomeVectors :
           castVote(sender, id, ev)

TallyStep ==
    /\ Idle
    /\ Len(events) < MaxEvents
    /\ \E sender \in Callers, id \in ProposalIds : tallyVotes(sender, id)

GetProposalStep ==
    /\ Idle
    /\ Len(events) < MaxEvents
    /\ \E id \in ProposalIds : getProposal(id)

GetResultsStep ==
    /\ Idle
    /\ Len(events) < MaxEvents
    /\ \E id \in ProposalIds : getDecryptedResults(id)

ClockStep ==
    /\ Idle
    /\ Len(events) < MaxEvents
    /\ Tick

Next ==
    \/ CreateStep
    \/ VoteStep
    \/ TallyStep
    \/ GetProposalStep
    \/ GetResultsStep
    \/ ClockStep
    \/ Return

Spec == Init /\ [][Next]_vars

\* One proposal and three voters: every order in which the voters of one
\* proposal can cast their votes, and the tally that follows.
ElectionCreate ==
    /\ Idle
    /\ nextProposalId = 1
    /\ \E d \in {Small(0), Small(1)} :
           createProposal("A", "Q", <<"Yes", "No">>, d)

ElectionVote ==
    /\ Idle
    /\ \E sender \in Addresses, ev \in EncryptedVectors :
           castVote(sender, 1, ev)

ElectionTally ==
    /\ Idle
    /\ \E sender \in Addresses : tallyVotes(sender, 1)

\* The clock of an election runs to MaxElectionClock, two ticks past the
\* earliest deadline.
ElectionClock ==
    /\ Idle
    /\ blockTimestamp < MaxElectionClock
    /\ blockTimestamp' = blockTimestamp + 1
    /\ UNCHANGED <<storage, lastCall>>

ElectionNext ==
    \/ ElectionCreate
    \/ ElectionVote
    \/ ElectionTally
    \/ ElectionClock
    \/ Return

ElectionSpec == Init /\ [][ElectionNext]_vars

\* The election in which every call returns and a tallyVotes that the
\* precompile does not fail is made again and again while it is possible.
TallySucceeds ==
    /\ ElectionTally
    /\ lastCall'.result = "ok"

FairElectionSpec ==
    /\ Init /\ [][ElectionNext]_vars
    /\ WF_vars(Return)
    /\ SF_vars(TallySucceeds)

\* ------------------------------------------------------------------- claims
Existing == {p \in ProposalIds : proposals[p].id # 0}

\* The accepted castVote calls of voter v on proposal p.
VotesAccepted(v, p) ==
    {i \in DOMAIN ballots : ballots[i].voter = v /\ ballots[i].proposalId = p}

\* The accepted castVote calls on proposal p, oldest first.
BallotsOf(p) == SelectSeq(ballots, LAMBDA b : b.proposalId = p)

\* The successful tallyVotes calls on proposal p.
Tallies(p) ==
    {i \in DOMAIN events :
        events[i].type = "TallyCompleted" /\ events[i].proposalId = p}

\* The step is a call of op on proposal p (lastCall' is its record).
Called(op, p) == lastCall'.op = op /\ lastCall'.id = p

\* C1: for every voter v and proposal p, at most one castVote call by v on
\* p succeeds, whatever calls and clock advances happen.
C1_AtMostOneAcceptedVote ==
    \A v \in Addresses, p \in ProposalIds : Cardinality(VotesAccepted(v, p)) <= 1

\* A voter with an accepted vote has just called castVote again on the same
\* proposal, and the call failed.
C1_Witness ==
    /\ lastCall.op = "castVote"
    /\ lastCall.result # "ok"
    /\ Cardinality(VotesAccepted(lastCall.caller, lastCall.id)) = 1

\* C2 as stated: once v has an accepted vote on p, every further castVote by
\* v on p is rejected with AlreadyVoted, whenever it is made.
C2_AlwaysAlreadyVoted ==
    [][\A v \in Addresses, p \in ProposalIds :
          (VotesAccepted(v, p) # {} /\ Called("castVote", p)
              /\ lastCall'.caller = v)
          => lastCall'.result = "AlreadyVoted"]_vars

\* C2 amended: once v has an accepted vote on p, every further castVote by v
\* on p is rejected, whatever vector is submitted: with AlreadyVoted while
\* the clock is at most votingDeadline, with VotingIsClosed after it.
C2_RejectedSecondVote ==
    [][\A v \in Addresses, p \in ProposalIds :
          (VotesAccepted(v, p) # {} /\ Called("castVote", p)
              /\ lastCall'.caller = v)
          => /\ lastCall'.result =
                  IF Greater(blockTimestamp, proposals[p].votingDeadline)
                  THEN "VotingIsClosed" ELSE "AlreadyVoted"
             /\ UNCHANGED storage]_vars

\* A voter with an accepted vote was rejected with AlreadyVoted on submitting
\* a vector other than the accepted one.
C2_Witness ==
    /\ lastCall.op = "castVote"
    /\ lastCall.result = "AlreadyVoted"
    /\ \E i \in VotesAccepted(lastCall.caller, lastCall.id) :
           ballots[i].votes # lastCall.votes

\* C3: tallyVotes succeeds at most once per proposal; after a successful
\* tallyVotes(p) every later tallyVotes(p) fails with
\* ResultsAlreadyDecrypted, and p's results, flag and counters stay as
\* they are.
C3_TallyOnce ==
    [][\A p \in ProposalIds :
          /\ Cardinality(Tallies(p))' <= 1
          /\ Tallies(p) # {} =>
                /\ proposals'[p] = proposals[p]
                /\ Called("tallyVotes", p) =>
                       lastCall'.result = "ResultsAlreadyDecrypted"]_vars

\* A second tallyVotes on a tallied proposal that holds a vote has failed
\* with ResultsAlreadyDecrypted.
C3_Witness ==
    /\ lastCall.op = "tallyVotes"
    /\ lastCall.result = "ResultsAlreadyDecrypted"
    /\ Tallies(lastCall.id) # {}
    /\ BallotsOf(lastCall.id) # << >>

\* C4: a proposal whose results are decrypted (or whose decryptedResults is
\* non-empty) has its deadline strictly behind the clock, and a tallyVotes
\* call made while the clock is at most votingDeadline fails with
\* TallyNotAllowed and changes no state.
C4_NoPrematureDisclosure ==
    [][\A p \in ProposalIds :
          /\ (proposals'[p].resultsDecrypted
                 \/ proposals'[p].decryptedResults # << >>)
             => Greater(blockTimestamp', proposals'[p].votingDeadline)
          /\ (p \in Existing /\ Called("tallyVotes", p)
                 /\ ~Greater(blockTimestamp, proposals[p].votingDeadline))
             => /\ lastCall'.result = "TallyNotAllowed"
                /\ UNCHANGED storage]_vars

\* A tallyVotes at the deadline itself has failed with TallyNotAllowed while
\* another proposal is tallied.
C4_Witness ==
    /\ lastCall.op = "tallyVotes"
    /\ lastCall.result = "TallyNotAllowed"
    /\ proposals[lastCall.id].votingDeadline = Small(blockTimestamp)
    /\ \E q \in Existing : proposals[q].resultsDecrypted

\* C5: for an existing proposal, every castVote made at a clock reading
\* strictly greater than votingDeadline fails with VotingIsClosed, for every
\* caller and vector, and no option counter changes once the deadline has
\* passed.
C5_ClosedAfterDeadline ==
    [][\A p \in Existing :
          Greater(blockTimestamp, proposals[p].votingDeadline)
          => /\ proposals'[p].options = proposals[p].options
             /\ Called("castVote", p) => lastCall'.result = "VotingIsClosed"]_vars

\* A voter who has not voted, with a vector of the right length, was turned
\* away with VotingIsClosed one tick after the deadline.
C5_Witness ==
    /\ lastCall.op = "castVote"
    /\ lastCall.result = "VotingIsClosed"
    /\ ~hasVoted[lastCall.caller][lastCall.id]
    /\ Len(lastCall.votes) = Len(proposals[lastCall.id].options)
    /\ proposals[lastCall.id].votingDeadline = Small(blockTimestamp - 1)
    /\ BallotsOf(lastCall.id) # << >>

\* C6: at a clock reading equal to votingDeadline, castVote by a voter
\* without a VoterRecord and with a vector of length len(options) succeeds
\* (the precompile not failing), and tallyVotes fails with TallyNotAllowed.
C6_DeadlineBoundary ==
    [][\A p \in Existing :
          proposals[p].votingDeadline = Small(blockTimestamp)
          => /\ (Called("castVote", p)
                    /\ ~hasVoted[lastCall'.caller][p]
                    /\ Len(lastCall'.votes) = Len(proposals[p].options)
                    /\ lastCall'.result # "CapabilityFailure")
                => /\ lastCall'.result = "ok"
                   /\ hasVoted'[lastCall'.caller][p]
             /\ Called("tallyVotes", p)
                => lastCall'.result = "TallyNotAllowed"]_vars

\* A proposal created with duration 0 got a vote at the creation instant,
\* and a tallyVotes at the same instant has failed with TallyNotAllowed.
C6_Witness ==
    /\ lastCall.op = "tallyVotes"
    /\ lastCall.result = "TallyNotAllowed"
    /\ proposals[lastCall.id].votingDeadline = Small(blockTimestamp)
    /\ BallotsOf(lastCall.id) # << >>
    /\ \A i \in DOMAIN events : events[i].type # "TallyCompleted"
    /\ blockTimestamp = 1

\* C7 as stated: for every created proposal the three conditions
\* resultsDecrypted, decryptedResults non-empty and
\* len(decryptedResults) = len(options) are equivalent.
C7_ResultsEquivalence ==
    \A p \in Existing :
        LET decrypted == proposals[p].resultsDecrypted
            nonEmpty == proposals[p].decryptedResults # << >>
            sameLength == Len(proposals[p].decryptedResults)
                              = Len(proposals[p].options)
        IN  (decrypted <=> nonEmpty) /\ (nonEmpty <=> sameLength)

\* The option names of a proposal, in order.
OptionNames(p) ==
    [i \in 1..Len(proposals[p].options) |-> proposals[p].options[i].name]

\* C8 as stated: every created proposal has len(options) >= 1, and the
\* number, order and names of its options never change.
C8_OptionsFixed ==
    [][\A p \in ProposalIds :
          /\ proposals'[p].id # 0 => Len(proposals'[p].options) >= 1
          /\ proposals[p].id # 0 => OptionNames(p)' = OptionNames(p)]_vars

\* The sum FHE.add computes, from an encryption of 0, of component i of the
\* vote vectors bs, oldest first.
RECURSIVE SumOfVotes(_, _)
SumOfVotes(bs, i) ==
    IF bs = << >> THEN FHE_trivialEncrypt(U32(0))
    ELSE FHE_add(SumOfVotes(SubSeq(bs, 1, Len(bs) - 1), i),
                 bs[Len(bs)].votes[i])

\* C9: after a successful tallyVotes(p), decryptedResults[i] is, for every
\* option index i, the sum (as FHE.add computes it on 32-bit values, from an
\* encryption of 0) of the plaintexts of component i of the vote vectors
\* accepted on p, and of nothing else.
C9_TallyIsSum ==
    \A p \in Existing :
        proposals[p].resultsDecrypted =>
            /\ Len(proposals[p].decryptedResults) = Len(proposals[p].options)
            /\ \A i \in 1..Len(proposals[p].options) :
                   proposals[p].decryptedResults[i]
                       = FHE_decrypt(SumOfVotes(BallotsOf(p), i))

\* One accepted vote [1, 0] on a proposal of two options was tallied as
\* [1, 0], next to a second proposal.
C9_Witness ==
    \E p \in Existing, q \in Existing :
        /\ p # q
        /\ proposals[p].resultsDecrypted
        /\ Len(BallotsOf(p)) = 1
        /\ BallotsOf(p)[1].votes = EncryptVector(<<U32(1), U32(0)>>)
        /\ proposals[p].decryptedResults = <<U32(1), U32(0)>>

\* The counters of a proposal after castVote has accepted the vectors bs in
\* the order given, from the counters options.
RECURSIVE ReplayVotes(_, _)
ReplayVotes(options, bs) ==
    IF bs = << >> THEN options
    ELSE ReplayVotes(AddVotes(options, Head(bs).votes), Tail(bs))

\* The tally of proposal p had its accepted votes been cast in the order f.
TallyInOrder(p, f) ==
    LET bs == BallotsOf(p)
    IN  DecryptCounts(ReplayVotes(NewOptions(OptionNames(p)),
                                  [k \in 1..Len(bs) |-> bs[f[k]]]))

\* C10: the votes of distinct voters on one proposal, applied in any
\* permutation of their order, give the same decryptedResults after
\* tallyVotes.
C10_OrderIndependent ==
    \A p \in Existing :
        proposals[p].resultsDecrypted =>
            \A f \in Permutations(1..Len(BallotsOf(p))) :
                TallyInOrder(p, f) = proposals[p].decryptedResults

\* Three voters cast three different vectors, one of them wrapping a
\* counter around, and the proposal is tallied.
C10_Witness ==
    /\ proposals[1].resultsDecrypted
    /\ Len(BallotsOf(1)) = 3
    /\ Cardinality({BallotsOf(1)[k].votes : k \in 1..3}) = 3
    /\ proposals[1].decryptedResults = <<U32(0), U32(3)>>

\* The errors castVote reports on its own checks.
CastVoteErrors ==
    {"ProposalNotFound", "VotingIsClosed", "AlreadyVoted",
     "InvalidOptionsCount"}

\* C11: a castVote call that fails with ProposalNotFound, VotingIsClosed,
\* AlreadyVoted or InvalidOptionsCount changes no state (counters,
\* VoterRecords, id counter, event log); a voter rejected for a vector of the
\* wrong length has no VoterRecord, and a castVote of theirs with a vector
\* of the right length passes every check while voting is open.
C11_FailedVoteChangesNothing ==
    [][\A v \in Addresses, p \in ProposalIds :
          (Called("castVote", p) /\ lastCall'.caller = v
              /\ lastCall'.result \in CastVoteErrors)
          => /\ UNCHANGED storage
             /\ lastCall'.result = "InvalidOptionsCount"
                => /\ ~hasVoted'[v][p]
                   /\ ~VotingIsClosed(p)'
                   /\ \A ev \in EncryptedVectors :
                          Len(ev) = Len(proposals'[p].options)
                          => castVoteError(v, p, ev)' = "none"]_vars

\* A voter without a VoterRecord was rejected for a vector of the wrong
\* length on a proposal that holds another voter's accepted vote.
C11_Witness ==
    /\ lastCall.op = "castVote"
    /\ lastCall.result = "InvalidOptionsCount"
    /\ ~hasVoted[lastCall.caller][lastCall.id]
    /\ BallotsOf(lastCall.id) # << >>
    /\ Len(proposals[lastCall.id].options) = 2

\* C12: getDecryptedResults(p) on an existing proposal fails with
\* TallyNotAllowed as long as no tallyVotes(p) has succeeded; after that it
\* returns, on every call, the sequence the tally stored, as long as
\* options; it never changes state.
C12_ResultsView ==
    [][\A p \in Existing :
          Called("getDecryptedResults", p)
          => /\ UNCHANGED storage
             /\ IF Tallies(p) = {}
                THEN lastCall'.result = "TallyNotAllowed"
                ELSE /\ lastCall'.result = "ok"
                     /\ \A i \in Tallies(p) :
                            lastCall'.ret = events[i].results
                     /\ Len(lastCall'.ret) = Len(proposals[p].options)]_vars

\* getDecryptedResults has returned the tally [1, 0] of a proposal with one
\* accepted vote.
C12_Witness ==
    /\ lastCall.op = "getDecryptedResults"
    /\ lastCall.result = "ok"
    /\ lastCall.ret = <<U32(1), U32(0)>>
    /\ Len(BallotsOf(lastCall.id)) = 1

\* The ids the successful createProposal calls have returned.
Created ==
    {events[i].proposalId :
        i \in {j \in DOMAIN events : events[j].type = "ProposalCreated"}}

\* The calls that take a proposal id.
CallsById == {"castVote", "tallyVotes", "getProposal", "getDecryptedResults"}

\* C13: castVote, tallyVotes, getProposal and getDecryptedResults fail with
\* ProposalNotFound on id 0 and on every id no createProposal has returned,
\* whatever the other checks would say, and change no state.
C13_NotFoundFirst ==
    [][\A p \in ProposalIds \ Created :
          (lastCall'.op \in CallsById /\ lastCall'.id = p)
          => /\ lastCall'.result = "ProposalNotFound"
             /\ UNCHANGED storage]_vars

\* castVote with a vector of two ciphertexts on an id not yet assigned has
\* failed with ProposalNotFound, next to an existing proposal and with the
\* clock past the (zero) deadline of the empty slot.
C13_Witness ==
    /\ lastCall.op = "castVote"
    /\ lastCall.result = "ProposalNotFound"
    /\ lastCall.id \notin Created
    /\ lastCall.id # 0
    /\ Len(lastCall.votes) = 2
    /\ Created # {}
    /\ Greater(blockTimestamp, proposals[lastCall.id].votingDeadline)

\* The ProposalCreated events, oldest first: one per successful
\* createProposal.
Creations == SelectSeq(events, LAMBDA e : e.type = "ProposalCreated")

\* C14: the k-th successful createProposal returns id k (the first 1, never
\* 0), and in every reachable state the ids for which getProposal succeeds
\* are exactly 1..n, n the number of successful createProposal calls so
\* far; no operation removes a proposal.
C14_IdAllocation ==
    LET n == Len(Creations)
    IN  /\ \A k \in 1..n : Creations[k].proposalId = k
        /\ Existing = 1..n
        /\ \A p \in Existing : proposals[p].id = p
        /\ (lastCall.op = "createProposal" /\ lastCall.result = "ok")
           => lastCall.ret = <<n>>
        /\ lastCall.op = "getProposal"
           => (lastCall.result = "ok" <=> lastCall.id \in 1..n)

\* The second successful createProposal has returned id 2, the first
\* proposal still registered.
C14_Witness ==
    /\ lastCall.op = "createProposal"
    /\ lastCall.result = "ok"
    /\ lastCall.ret = <<2>>
    /\ Len(Creations) = 2
    /\ proposals[1].id = 1

\* C15: once tallyVotes(p) has succeeded, no createProposal, castVote or
\* tallyVotes call by any caller at any clock reading changes p's
\* resultsDecrypted, decryptedResults or option counters, and every
\* castVote(p) and tallyVotes(p) fails.
C15_TalliedIsTerminal ==
    [][\A p \in ProposalIds :
          proposals[p].resultsDecrypted
          => /\ proposals'[p].resultsDecrypted
             /\ proposals'[p].decryptedResults = proposals[p].decryptedResults
             /\ proposals'[p].options = proposals[p].options
             /\ (Called("castVote", p) \/ Called("tallyVotes", p))
                => /\ lastCall'.result \notin {"ok", "CapabilityFailure"}
                   /\ UNCHANGED storage]_vars

\* A voter without a VoterRecord, with a vector of the right length, was
\* turned away from a tallied proposal that holds a vote.
C15_Witness ==
    /\ lastCall.op = "castVote"
    /\ lastCall.result # "ok"
    /\ proposals[lastCall.id].resultsDecrypted
    /\ ~hasVoted[lastCall.caller][lastCall.id]
    /\ Len(lastCall.votes) = Len(proposals[lastCall.id].options)
    /\ BallotsOf(lastCall.id) # << >>

\* C16: castVote calls of distinct voters on the same open proposal, run
\* as whole transactions in either order, all succeed (the precompile not
\* failing) and set their VoterRecords without touching the others'; with
\* two accepted votes the decrypted tally is the component-wise sum of both
\* vectors, taken in either order.
C16_NoLostUpdate ==
    [][/\ \A v \in Addresses :
             (Called("castVote", 1) /\ lastCall'.caller = v
                 /\ 1 \in Existing
                 /\ ~Greater(blockTimestamp, proposals[1].votingDeadline)
                 /\ ~hasVoted[v][1]
                 /\ Len(lastCall'.votes) = Len(proposals[1].options)
                 /\ lastCall'.result # "CapabilityFailure")
             => /\ lastCall'.result = "ok"
                /\ hasVoted'[v][1]
                /\ \A w \in Addresses \ {v} : hasVoted'[w][1] = hasVoted[w][1]
                /\ BallotsOf(1)' = Append(BallotsOf(1),
                       [voter |-> v, proposalId |-> 1,
                        votes |-> lastCall'.votes])
       /\ (Called("tallyVotes", 1) /\ lastCall'.result = "ok"
              /\ Len(BallotsOf(1)) = 2)
          => LET first == BallotsOf(1)[1].votes
                 second == BallotsOf(1)[2].votes
             IN  \A i \in 1..Len(proposals[1].options) :
                    /\ proposals'[1].decryptedResults[i]
                          = FHE_decrypt(FHE_add(first[i], second[i]))
                    /\ proposals'[1].decryptedResults[i]
                          = FHE_decrypt(FHE_add(second[i], first[i]))]_vars

\* Voters B and A, in that order, cast [1, 0] and [0, 1]; both VoterRecords
\* are set, C has none, and the tally is [1, 1].
C16_Witness ==
    /\ proposals[1].resultsDecrypted
    /\ Len(BallotsOf(1)) = 2
    /\ BallotsOf(1)[1].voter = "B"
    /\ BallotsOf(1)[1].votes = EncryptVector(<<U32(1), U32(0)>>)
    /\ BallotsOf(1)[2].voter = "A"
    /\ BallotsOf(1)[2].votes = EncryptVector(<<U32(0), U32(1)>>)
    /\ hasVoted["A"][1] /\ hasVoted["B"][1] /\ ~hasVoted["C"][1]
    /\ proposals[1].decryptedResults = <<U32(1), U32(1)>>

\* C17: a castVote whose accumulation loop meets a failure of the
\* precompile fails and leaves every counter, the VoterRecord and the event
\* log as they were; a castVote that succeeds advances all len(options)
\* counters by its vector, sets the VoterRecord and emits VoteCast.
C17_AllOrNothing ==
    [][\A v \in Addresses :
          (Called("castVote", 1) /\ lastCall'.caller = v)
          => /\ lastCall'.result = "CapabilityFailure" => UNCHANGED storage
             /\ lastCall'.result = "ok"
                => /\ Len(lastCall'.votes) = Len(proposals[1].options)
                   /\ Len(proposals'[1].options) = Len(proposals[1].options)
                   /\ \A i \in 1..Len(proposals[1].options) :
                          proposals'[1].options[i].encryptedVoteCount
                            = FHE_add(proposals[1].options[i].encryptedVoteCount,
                                      lastCall'.votes[i])
                   /\ hasVoted'[v][1]
                   /\ events' = Append(events,
                          [type |-> "VoteCast", proposalId |-> 1,
                           voter |-> v])]_vars

\* The precompile failed during the castVote of a voter without a
\* VoterRecord, on a proposal whose counters hold another voter's vote.
C17_Witness ==
    /\ lastCall.op = "castVote"
    /\ lastCall.result = "CapabilityFailure"
    /\ ~hasVoted[lastCall.caller][lastCall.id]
    /\ Len(BallotsOf(lastCall.id)) = 1
    /\ DecryptCounts(proposals[lastCall.id].options) = <<U32(1), U32(0)>>
    /\ Len(events) = 2

\* C18 as stated: createProposal fails on a failure of the precompile only;
\* for every title, option-name sequence and duration, a duration whose sum
\* with the clock exceeds the integer width included, it succeeds and
\* returns a new id.
C18_NoErrorCondition ==
    [][lastCall'.op = "createProposal"
          => /\ lastCall'.result \in {"ok", "CapabilityFailure"}
             /\ lastCall'.result = "ok"
                => lastCall'.ret = <<nextProposalId>>]_vars

\* clock + d exceeds type(uint256).max.
ExceedsWidth(clock, d) == d.top /\ clock > d.n

\* C18 amended: for every title, every option-name sequence (the empty one
\* included) and every duration whose sum with the clock fits the integer
\* width (0 included), createProposal fails on a failure of the precompile
\* only, and otherwise registers and returns a new id; when the sum exceeds
\* the width the call fails (arithmetic panic) and changes no state.
C18_FailsOnlyOnOverflow ==
    [][\A sender \in Callers, t \in Titles, names \in OptionNameLists,
          d \in Durations :
          createProposal(sender, t, names, d)
          => /\ lastCall'.result = "Panic"
                  <=> ExceedsWidth(blockTimestamp, d)
             /\ lastCall'.result \in {"ok", "CapabilityFailure", "Panic"}
             /\ lastCall'.result = "CapabilityFailure" => names # << >>
             /\ lastCall'.result # "ok" => UNCHANGED storage
             /\ lastCall'.result = "ok"
                => \E id \in ProposalIds \ Existing :
                       /\ id = nextProposalId
                       /\ lastCall'.ret = <<id>>
                       /\ id \in Existing'
                       /\ OptionNames(id)' = names
                       /\ proposals'[id].votingDeadline
                            = Small(blockTimestamp + d.n)]_vars

\* createProposal has failed on a duration of type(uint256).max, after a
\* proposal without options was registered.
C18_Witness ==
    /\ lastCall.op = "createProposal"
    /\ lastCall.result = "Panic"
    /\ \E p \in Existing : proposals[p].options = << >>

\* The plaintext of a ciphertext of a vote vector or of a counter.
Plain(c) == FHE_decrypt(c)

\* Every component of every vector of bs is an encryption of 0 or of 1.
ZeroOne(bs) ==
    \A k \in 1..Len(bs) : \A i \in 1..Len(bs[k].votes) :
        Plain(bs[k].votes[i]) \in {U32(0), U32(1)}

\* Every vector of bs has one component 1 and the others 0.
OneHot(bs) ==
    /\ ZeroOne(bs)
    /\ \A k \in 1..Len(bs) :
           Cardinality({i \in 1..Len(bs[k].votes) :
                           Plain(bs[k].votes[i]) = U32(1)}) = 1

\* The sum of the plaintexts of the counters of options.
RECURSIVE SumOfCounters(_)
SumOfCounters(options) ==
    IF options = << >> THEN U32(0)
    ELSE U32Add(Plain(Head(options).encryptedVoteCount),
                SumOfCounters(Tail(options)))

\* C19: when every accepted vector of a proposal has components 0 or 1
\* only, the plaintext of options[i].encryptedVoteCount is the number of
\* accepted votes whose component i is nonzero; when every vector is
\* one-hot as well, the counters of the proposal add up to the number of
\* VoterRecords set for it.
C19_CountersCountVotes ==
    \A p \in Existing :
        LET bs == BallotsOf(p)
        IN  /\ ZeroOne(bs)
               => \A i \in 1..Len(proposals[p].options) :
                      Plain(proposals[p].options[i].encryptedVoteCount)
                        = U32(Cardinality({k \in 1..Len(bs) :
                                 Plain(bs[k].votes[i]) # U32(0)}))
            /\ OneHot(bs)
               => SumOfCounters(proposals[p].options)
                    = U32(Cardinality({v \in Addresses : hasVoted[v][p]}))

\* Three voters cast one-hot vectors, two for the first option and one for
\* the second: the counters read 2 and 1.
C19_Witness ==
    /\ 1 \in Existing
    /\ Len(BallotsOf(1)) = 3
    /\ OneHot(BallotsOf(1))
    /\ DecryptCounts(proposals[1].options) = <<U32(2), U32(1)>>
    /\ \A v \in Addresses : hasVoted[v][1]

\* C20: hasVoted[v][p] is false initially, becomes true exactly in the step
\* in which a castVote by v on p succeeds, and stays true from then on; in
\* every reachable state it is true iff v has one accepted vote on p, and
\* never for an id that is not an existing proposal.
C20_VoterRecordLifecycle ==
    /\ \A v \in Addresses, p \in ProposalIds : ~hasVoted[v][p]
    /\ [][\A v \in Addresses, p \in ProposalIds :
             /\ hasVoted[v][p] => hasVoted'[v][p]
             /\ (~hasVoted[v][p] /\ hasVoted'[v][p])
                  <=> (Called("castVote", p) /\ lastCall'.caller = v
                          /\ lastCall'.result = "ok")
             /\ hasVoted'[v][p] <=> Cardinality(VotesAccepted(v, p))' = 1
             /\ hasVoted'[v][p] => p \in Existing']_vars

\* The record of a voter is still set after the clock has advanced and the
\* proposal was tallied, and a voter who never voted has none.
C20_Witness ==
    /\ lastCall.op = "tallyVotes"
    /\ lastCall.result = "ok"
    /\ \E v \in Addresses, w \in Callers :
           /\ hasVoted[v][lastCall.id]
           /\ VotesAccepted(v, lastCall.id) # {}
           /\ ~hasVoted[w][lastCall.id]

\* The FHE.decrypt calls made on counter i of proposal p.
DecryptionsOf(p, i) ==
    {k \in DOMAIN decryptions :
        decryptions[k].proposalId = p /\ decryptions[k].option = i}

\* Every FHE.decrypt call on record belongs to a tallied proposal and read
\* the counter as it stands (no vote was added after it); each counter of
\* a tallied proposal was decrypted exactly once and no counter of another
\* proposal at all.
DecryptionsOnRecord ==
    /\ \A k \in DOMAIN decryptions :
           LET d == decryptions[k]
           IN  /\ d.proposalId \in Existing
               /\ Tallies(d.proposalId) # {}
               /\ d.option \in 1..Len(proposals[d.proposalId].options)
               /\ d.ciphertext = proposals[d.proposalId].options[d.option]
                                    .encryptedVoteCount
    /\ \A p \in ProposalIds : \A i \in 1..Len(proposals[p].options) :
           Cardinality(DecryptionsOf(p, i))
             = IF proposals[p].resultsDecrypted THEN 1 ELSE 0

EventsOf(p) == SelectSeq(events, LAMBDA e : e.proposalId = p)

\* The events of a proposal p are one ProposalCreated(p), then VoteCast
\* events of pairwise distinct voters, then at most one TallyCompleted(p),
\* with no event of p after it; every event has its registered proposal
\* with the fields of the event, its VoterRecord or its tallied proposal,
\* and TallyCompleted carries the stored decryptedResults.
EventOrder ==
    /\ \A k \in DOMAIN events :
           LET e == events[k]
               p == e.proposalId
           IN  /\ p \in Existing
               /\ e.type = "ProposalCreated"
                  => /\ e = [type |-> "ProposalCreated", proposalId |-> p,
                             proposer |-> proposals[p].proposer,
                             title |-> proposals[p].title,
                             votingDeadline |-> proposals[p].votingDeadline]
                     /\ \A j \in 1..(k - 1) : events[j].proposalId # p
               /\ e.type = "VoteCast"
                  => /\ hasVoted[e.voter][p]
                     /\ \A j \in 1..(k - 1) : events[j] # e
                     /\ \E j \in 1..(k - 1) : events[j].proposalId = p
               /\ e.type = "TallyCompleted"
                  => /\ proposals[p].resultsDecrypted
                     /\ e.results = proposals[p].decryptedResults
                     /\ \E j \in 1..(k - 1) : events[j].proposalId = p
                     /\ \A j \in (k + 1)..Len(events) :
                            events[j].proposalId # p
    /\ \A p \in Existing :
           /\ \E k \in DOMAIN events :
                  events[k].type = "ProposalCreated"
                     /\ events[k].proposalId = p
           /\ proposals[p].resultsDecrypted => Tallies(p) # {}
           /\ \A v \in Addresses :
                  hasVoted[v][p]
                  => [type |-> "VoteCast", proposalId |-> p, voter |-> v]
                        \in {events[k] : k \in DOMAIN events}

\* The event a successful call emits: its type and its proposal.
EmittedBy(call) ==
    IF call.op = "createProposal"
    THEN [type |-> "ProposalCreated", proposalId |-> call.ret[1]]
    ELSE IF call.op = "castVote"
    THEN [type |-> "VoteCast", proposalId |-> call.id]
    ELSE [type |-> "TallyCompleted", proposalId |-> call.id]

\* C22: the log starts empty; a successful createProposal, castVote or
\* tallyVotes appends exactly one event, of its type and proposal (and
\* voter), every other step (a failed call, a view call, a clock advance)
\* none; and after every step the events of each proposal are in the order
\* ProposalCreated, VoteCast of pairwise distinct voters, at most one
\* TallyCompleted, TallyCompleted carrying the stored decryptedResults
\* (EventOrder holds at the start and reads events, proposals and hasVoted
\* only, so it is looked at after the steps that change one of them).
C22_EventOrder ==
    /\ events = << >>
    /\ EventOrder
    /\ [][/\ UNCHANGED <<events, proposals, hasVoted>>
             \/ EventOrder'
          /\ IF /\ lastCall'.result = "ok"
                /\ lastCall'.op \in {"createProposal", "castVote", "tallyVotes"}
             THEN /\ Len(events') = Len(events) + 1
                  /\ SubSeq(events', 1, Len(events)) = events
                  /\ LET e == events'[Len(events')]
                     IN  /\ e.type = EmittedBy(lastCall').type
                         /\ e.proposalId = EmittedBy(lastCall').proposalId
                         /\ lastCall'.op = "castVote"
                            => e.voter = lastCall'.caller
             ELSE events' = events]_vars

\* A proposal has its four events in order: created, two votes of different
\* voters, and the tally that has just completed.
C22_Witness ==
    /\ lastCall.op = "tallyVotes"
    /\ lastCall.result = "ok"
    /\ Len(EventsOf(lastCall.id)) = 4
    /\ EventsOf(lastCall.id)[2].type = "VoteCast"
    /\ EventsOf(lastCall.id)[3].type = "VoteCast"
    /\ EventsOf(lastCall.id)[4].type = "TallyCompleted"

\* C23: a successful createProposal stores, under the new id, the caller
\* as proposer, the title, votingDeadline = clock + votingDurationSeconds,
\* resultsDecrypted = false, no decryptedResults and one option per name, in
\* order, with a counter encrypting 0; and no step changes the id,
\* proposer, title, votingDeadline or option names of an existing proposal.
C23_CreationFrame ==
    [][/\ (lastCall'.op = "createProposal" /\ lastCall'.result = "ok")
          => \A sender \in Callers, t \in Titles, names \in OptionNameLists,
                d \in Durations :
             createProposal(sender, t, names, d)
             => \E id \in ProposalIds :
                    /\ id = nextProposalId
                    /\ proposals'[id] =
                         [id |-> id, proposer |-> sender, title |-> t,
                          votingDeadline |-> Small(blockTimestamp + d.n),
                          resultsDecrypted |-> FALSE,
                          options |->
                              [i \in 1..Len(names) |->
                                  [name |-> names[i],
                                   encryptedVoteCount |->
                                       FHE_trivialEncrypt(U32(0))]],
                          decryptedResults |-> << >>]
       /\ \A p \in Existing :
             /\ proposals'[p].id = proposals[p].id
             /\ proposals'[p].proposer = proposals[p].proposer
             /\ proposals'[p].title = proposals[p].title
             /\ proposals'[p].votingDeadline = proposals[p].votingDeadline
             /\ OptionNames(p)' = OptionNames(p)]_vars

\* A second proposal was created after the first was voted on and tallied;
\* the first still has its proposer, title and option names.
C23_Witness ==
    /\ lastCall.op = "createProposal"
    /\ lastCall.result = "ok"
    /\ lastCall.ret = <<2>>
    /\ proposals[1].resultsDecrypted
    /\ BallotsOf(1) # << >>
    /\ proposals[1].title = "Q"
    /\ OptionNames(1) = <<"Yes", "No">>
    /\ proposals[1].proposer # proposals[2].proposer

\* The clock has passed the deadline of proposal p.
PastDeadline(p) ==
    /\ ~proposals[p].votingDeadline.top
    /\ blockTimestamp > proposals[p].votingDeadline.n

\* The first rejection, in the order ProposalNotFound, VotingIsClosed,
\* AlreadyVoted, InvalidOptionsCount, that applies to a castVote of voter v
\* on proposal p with a vector of n ciphertexts; "none" when none applies.
FirstRejection(v, p, n) ==
    IF p \notin Created THEN "ProposalNotFound"
    ELSE IF PastDeadline(p) THEN "VotingIsClosed"
    ELSE IF VotesAccepted(v, p) # {} THEN "AlreadyVoted"
    ELSE IF n # Len(OptionNames(p)) THEN "InvalidOptionsCount"
    ELSE "none"

\* C24: a castVote reports the first rejection that applies in the state
\* it is made in, in the order ProposalNotFound, VotingIsClosed,
\* AlreadyVoted, InvalidOptionsCount, whatever other rejections apply as
\* well; with none applying it succeeds or fails on the precompile, and
\* the vote of a castVote that succeeded is the last on record.
C24_RejectionOrder ==
    [][lastCall'.op = "castVote"
       => LET v == lastCall'.caller
              p == lastCall'.id
              n == Len(lastCall'.votes)
          IN  IF FirstRejection(v, p, n) # "none"
              THEN lastCall'.result = FirstRejection(v, p, n)
              ELSE \/ lastCall'.result = "CapabilityFailure"
                   \/ /\ lastCall'.result = "ok"
                      /\ ballots' = Append(ballots,
                             [voter |-> v, proposalId |-> p,
                              votes |-> lastCall'.votes])]_vars

\* A voter with a VoterRecord has submitted a vector of the wrong length
\* while voting was open, and was rejected with AlreadyVoted.
C24_Witness ==
    /\ lastCall.op = "castVote"
    /\ lastCall.result = "AlreadyVoted"
    /\ Len(lastCall.votes) # Len(proposals[lastCall.id].options)
    /\ ~PastDeadline(lastCall.id)
    /\ hasVoted[lastCall.caller][lastCall.id]

\* The voters without a VoterRecord on p, and the vectors of p's length.
FreshVoters(p) == {v \in Addresses : ~hasVoted[v][p]}

FittingVectors(p) ==
    {ev \in EncryptedVectors : Len(ev) = Len(proposals[p].options)}

\* C25: for an existing proposal not yet tallied, at every clock reading,
\* exactly one of the two passes its checks: castVote by a voter without a
\* VoterRecord with a vector of the right length (iff clock <=
\* votingDeadline) or tallyVotes (iff clock > votingDeadline); a tallied
\* proposal accepts no vote, and at the clock reading of an accepted vote
\* tallyVotes is not yet allowed.
C25_NoGapNoOverlap ==
    /\ \A p \in Existing :
           IF proposals[p].resultsDecrypted
           THEN /\ PastDeadline(p)
                /\ \A v \in Addresses, ev \in EncryptedVectors :
                       castVoteError(v, p, ev) # "none"
           ELSE /\ \A v \in FreshVoters(p), ev \in FittingVectors(p) :
                       castVoteError(v, p, ev) = "none" <=> ~PastDeadline(p)
                /\ tallyVotesError(p) = "none" <=> PastDeadline(p)
    /\ (lastCall.op = "castVote" /\ lastCall.result = "ok")
       => tallyVotesError(lastCall.id) = "TallyNotAllowed"

\* One tick after its deadline an untallied proposal with one accepted
\* vote has turned a voter without a VoterRecord away.
C25_Witness ==
    /\ lastCall.op = "castVote"
    /\ lastCall.result = "VotingIsClosed"
    /\ lastCall.caller \in FreshVoters(lastCall.id)
    /\ lastCall.votes \in FittingVectors(lastCall.id)
    /\ ~proposals[lastCall.id].resultsDecrypted
    /\ ~proposals[lastCall.id].votingDeadline.top
    /\ blockTimestamp = proposals[lastCall.id].votingDeadline.n + 1
    /\ BallotsOf(lastCall.id) # << >>

\* C26: a castVote or tallyVotes call on proposal p, successful or not,
\* leaves every other proposal q and every VoterRecord (v, q) as they
\* were; createProposal changes no existing proposal and no VoterRecord;
\* and a voter with a VoterRecord on p and none on an open proposal q
\* passes every check of castVote on q with a vector of q's length.
C26_ProposalsIsolated ==
    [][/\ \A p \in ProposalIds :
             (Called("castVote", p) \/ Called("tallyVotes", p))
             => \A q \in ProposalIds \ {p} :
                    /\ proposals'[q] = proposals[q]
                    /\ \A v \in Addresses : hasVoted'[v][q] = hasVoted[v][q]
       /\ lastCall'.op = "createProposal"
          => /\ \A q \in Existing : proposals'[q] = proposals[q]
             /\ hasVoted' = hasVoted
       /\ \A v \in Addresses, p \in ProposalIds, q \in ProposalIds :
             (hasVoted'[v][p] /\ q \in Existing' /\ ~hasVoted'[v][q]
                 /\ ~PastDeadline(q)')
             => \A ev \in FittingVectors(q)' :
                    castVoteError(v, q, ev)' = "none"]_vars

\* One voter has an accepted vote on each of two proposals.
C26_Witness ==
    /\ lastCall.op = "castVote"
    /\ lastCall.result = "ok"
    /\ \E q \in Existing \ {lastCall.id} :
           /\ hasVoted[lastCall.caller][q]
           /\ VotesAccepted(lastCall.caller, q) # {}
           /\ Len(proposals[q].options) = 2
    /\ Len(proposals[lastCall.id].options) = 2

\* What an observer sees who cannot read ciphertexts or tally results: the
\* id counter, the VoterRecords, the clock, the events without the results
\* of TallyCompleted, and the proposals without their counters and
\* decryptedResults.
PubEvent(e) ==
    IF e.type = "TallyCompleted"
    THEN [type |-> e.type, proposalId |-> e.proposalId]
    ELSE e

PubProposal(p) ==
    [id |-> proposals[p].id, proposer |-> proposals[p].proposer,
     title |-> proposals[p].title,
     votingDeadline |-> proposals[p].votingDeadline,
     resultsDecrypted |-> proposals[p].resultsDecrypted,
     names |-> OptionNames(p)]

Pub ==
    [next |-> nextProposalId, voted |-> hasVoted, clock |-> blockTimestamp,
     log |-> [k \in DOMAIN events |-> PubEvent(events[k])],
     props |-> [p \in ProposalIds |-> PubProposal(p)]]

\* pub.clock is past the deadline of proposal p of pub.
PubPast(pub, p) ==
    /\ ~pub.props[p].votingDeadline.top
    /\ pub.clock > pub.props[p].votingDeadline.n

\* The rejection of castVote(v, p, vector of n ciphertexts) and of
\* tallyVotes(p), read off pub alone.
PubVoteRejection(pub, v, p, n) ==
    IF pub.props[p].id = 0 THEN "ProposalNotFound"
    ELSE IF PubPast(pub, p) THEN "VotingIsClosed"
    ELSE IF pub.voted[v][p] THEN "AlreadyVoted"
    ELSE IF n # Len(pub.props[p].names) THEN "InvalidOptionsCount"
    ELSE "none"

PubTallyRejection(pub, p) ==
    IF pub.props[p].id = 0 THEN "ProposalNotFound"
    ELSE IF ~PubPast(pub, p) THEN "TallyNotAllowed"
    ELSE IF pub.props[p].resultsDecrypted THEN "ResultsAlreadyDecrypted"
    ELSE "none"

\* pub after a successful castVote, tallyVotes and createProposal.
PubAfterVote(pub, v, p) ==
    [pub EXCEPT !.voted[v][p] = TRUE,
                !.log = Append(@, [type |-> "VoteCast", proposalId |-> p,
                                   voter |-> v])]

PubAfterTally(pub, p) ==
    [pub EXCEPT !.props[p].resultsDecrypted = TRUE,
                !.log = Append(@, [type |-> "TallyCompleted",
                                   proposalId |-> p])]

PubAfterCreate(pub, sender, t, names, deadline) ==
    [pub EXCEPT !.next = @ + 1,
                !.props[pub.next] =
                    [id |-> pub.next, proposer |-> sender, title |-> t,
                     votingDeadline |-> deadline, resultsDecrypted |-> FALSE,
                     names |-> names],
                !.log = Append(@, [type |-> "ProposalCreated",
                                   proposalId |-> pub.next,
                                   proposer |-> sender, title |-> t,
                                   votingDeadline |-> deadline])]

\* C27: in every step the outcome of the call and the next Pub are those
\* computed from Pub, the call's caller, id and vector length, and whether
\* the precompile fails: no plaintext of a submitted vector or of a counter
\* enters. Two runs with the same calls, callers, clock readings and vector
\* lengths therefore have the same outcomes, events, VoterRecords, ids and
\* flags, step by step, and castVote rejects no vector for its contents.
C27_ContentsDoNotInfluence ==
    [][/\ \A v \in Addresses, p \in ProposalIds, ev \in EncryptedVectors :
             castVote(v, p, ev)
             => LET e == PubVoteRejection(Pub, v, p, Len(ev))
                IN  /\ lastCall'.result
                          \in IF e # "none" THEN {e}
                              ELSE {"ok", "CapabilityFailure"}
                    /\ Pub' = IF lastCall'.result = "ok"
                              THEN PubAfterVote(Pub, v, p) ELSE Pub
       /\ \A sender \in Addresses, p \in ProposalIds :
             tallyVotes(sender, p)
             => LET e == PubTallyRejection(Pub, p)
                IN  /\ lastCall'.result
                          \in IF e # "none" THEN {e}
                              ELSE {"ok", "CapabilityFailure"}
                    /\ Pub' = IF lastCall'.result = "ok"
                              THEN PubAfterTally(Pub, p) ELSE Pub
       /\ \A sender \in Addresses, t \in Titles, names \in OptionNameLists,
             d \in Durations :
             createProposal(sender, t, names, d)
             => /\ lastCall'.result
                      \in IF ExceedsWidth(blockTimestamp, d) THEN {"Panic"}
                          ELSE {"ok", "CapabilityFailure"}
                /\ Pub' = IF lastCall'.result = "ok"
                          THEN PubAfterCreate(Pub, sender, t, names,
                                   Small(blockTimestamp + d.n))
                          ELSE Pub]_vars

\* Three voters were accepted on one proposal with a vector above 1, an
\* all-zero vector and a one-hot vector.
C27_Witness ==
    /\ Len(BallotsOf(1)) = 3
    /\ {BallotsOf(1)[k].votes : k \in 1..3}
         = {EncryptVector(<<MaxUint32, U32(2)>>),
            EncryptVector(<<U32(0), U32(0)>>),
            EncryptVector(<<U32(0), U32(1)>>)}
    /\ \A v \in Addresses : hasVoted[v][1]

\* C28 (safety): a tallyVotes call fails on an unknown id, at a clock
\* reading <= votingDeadline, on a tallied proposal or on the precompile,
\* and on nothing else, whoever calls and however many votes were cast;
\* without accepted votes it stores len(options) zeros.
TallyIsOpenToAll ==
    /\ \A p \in Existing :
           (PastDeadline(p) /\ ~proposals[p].resultsDecrypted)
           => tallyVotesError(p) = "none"
    /\ lastCall.op = "tallyVotes"
       => LET p == lastCall.id
          IN  /\ lastCall.result \notin {"ok", "CapabilityFailure"}
                 => lastCall.result =
                      IF p \notin Created THEN "ProposalNotFound"
                      ELSE IF ~PastDeadline(p) THEN "TallyNotAllowed"
                      ELSE "ResultsAlreadyDecrypted"
              /\ lastCall.result \notin {"ok", "CapabilityFailure"}
                 => (p \notin Created \/ ~PastDeadline(p) \/ Tallies(p) # {})
              /\ lastCall.result = "ok"
                 => /\ Len(proposals[p].decryptedResults)
                         = Len(proposals[p].options)
                    /\ BallotsOf(p) = << >>
                       => proposals[p].decryptedResults
                            = [i \in 1..Len(proposals[p].options) |-> U32(0)]

\* C28: every proposal can reach Tallied: TallyIsOpenToAll holds
\* throughout, and an existing proposal whose deadline the clock has passed
\* is eventually tallied, provided tallyVotes keeps being called and the
\* precompile does not fail every time.
C28_CanReachTallied ==
    /\ []TallyIsOpenToAll
    /\ \A p \in ProposalIds :
           (p \in Existing /\ PastDeadline(p)) ~> proposals[p].resultsDecrypted

\* A caller other than the proposer has tallied a proposal without votes:
\* the results are two zeros.
C28_Witness ==
    /\ lastCall.op = "tallyVotes"
    /\ lastCall.result = "ok"
    /\ lastCall.caller # proposals[lastCall.id].proposer
    /\ BallotsOf(lastCall.id) = << >>
    /\ proposals[lastCall.id].decryptedResults = <<U32(0), U32(0)>>

\* The results a tallyVotes(p) completing now would store.
WouldTally(p) == DecryptCounts(proposals[p].options)

\* C29: once the clock has passed votingDeadline, no step (castVote,
\* createProposal, a tallyVotes that fails or succeeds, a clock advance)
\* changes a counter of the proposal, so what tallyVotes would store stays
\* what it was when the deadline passed, and a tallyVotes that succeeds,
\* at whatever later clock reading, stores exactly that.
C29_TallyFixedAtDeadline ==
    [][\A p \in Existing :
          PastDeadline(p)
          => /\ proposals'[p].options = proposals[p].options
             /\ WouldTally(p)' = WouldTally(p)
             /\ (Called("tallyVotes", p) /\ lastCall'.result = "ok")
                => proposals'[p].decryptedResults = WouldTally(p)
             /\ proposals'[p].resultsDecrypted
                => proposals'[p].decryptedResults = WouldTally(p)]_vars

\* A proposal with two accepted votes was tallied two ticks after its
\* deadline, and the results are the counters of the deadline.
C29_Witness ==
    /\ lastCall.op = "tallyVotes"
    /\ lastCall.result = "ok"
    /\ proposals[lastCall.id].votingDeadline = Small(blockTimestamp - 2)
    /\ Len(BallotsOf(lastCall.id)) = 2
    /\ proposals[lastCall.id].decryptedResults = <<U32(1), U32(1)>>

====
